---- MODULE Spec2Model ----
(***************************************************************************)
(* Model of retreive_movies_data.py: the checkpointed ingestion job that   *)
(* lists movie ids page by page (save_movies_ids), then fetches the        *)
(* credits (save_credits_data) and the details (save_movies) of every id   *)
(* not yet stored, ten cycles per process.                                 *)
(*                                                                         *)
(* A JSON file is a sequence of length 0 (the file does not exist) or 1    *)
(* (its content).  A JSON document is a set of <<field, value>> pairs, so  *)
(* the empty document {} of a failed fetch has no "id" field.  A local     *)
(* that holds a document is a sequence too: <<>> while it is unbound.      *)
(*                                                                         *)
(* The runs start from a checkpoint file with small pages_per_run and      *)
(* max_pages, so that the ceiling is met within a few cycles; the          *)
(* checkpoint of a first run (page 1, 10 pages per run, 500 pages) is the  *)
(* default of read_data.                                                   *)
(***************************************************************************)
EXTENDS Integers, Sequences, FiniteSets, TLC

\* ------------------------------------------------------------------ bounds
MaxData == 3          \* ids the checkpoint's data holds, at most
MaxPagesPerRun == 3   \* pages_per_run of a checkpoint file found at start
MaxMaxPages == 3      \* max_pages of a checkpoint file found at start
MaxRuns == 2          \* launches of the process

\* ------------------------------------------------------ program constants
QTDS == 10                 \* cycles per process (range(10))
DefaultPage == 1           \* the checkpoint of a first run
DefaultPagesPerRun == 10
DefaultMaxPages == 500

\* The movie ids the listing pages return: two ids, the fewest that show
\* duplicates within the data and the order of the records in a store.
Ids == {7, 8}

VARIABLES
    ckptFile,      \* data/movies_ids.json
    creditsFile,   \* data/credits.json
    moviesFile,    \* data/movies.json
    token,         \* MOVIE_API_TOKEN is set in the process environment
    pc,            \* position of the process
    i,             \* loop variable of the entry point
    runs,          \* launches of the process so far
    stage,         \* stage the current cycle is in
    raised,        \* exception raised in the current cycle
    data_to_save,  \* save_movies_ids: the checkpoint in memory
    pages,         \* save_movies_ids: pages of the range still to list
    movies_ids,    \* main: the unique-id set
    todo,          \* detail stage: ids the for loop has not reached yet
    credits,       \* save_credits_data: the store in memory
    credits_already_saved,
    credit,        \* save_credits_data: the last document fetched
    movies,        \* save_movies: the store in memory
    movies_ids_already_saved,
    movie,         \* save_movies: the last document fetched
    listCalls,     \* history: pages listed by the current Discovery invocation
    listReturns,   \* history: what each of these pages returned, until the write
    pageCalls,     \* history: every page listed, in order, over all runs
    creditCalls,   \* history: id -> calls of retreive_movies_crew
    detailCalls,   \* history: id -> calls of retreive_movies
    stagesDone     \* history: stages of this cycle that persisted their store

files == <<ckptFile, creditsFile, moviesFile>>
control == <<token, pc, i, runs, stage, raised>>
discLocals == <<data_to_save, pages>>
credLocals == <<credits, credits_already_saved, credit>>
movLocals == <<movies, movies_ids_already_saved, movie>>
history == <<listCalls, listReturns, pageCalls, creditCalls, detailCalls, stagesDone>>
vars == <<files, control, discLocals, movies_ids, todo, credLocals, movLocals, history>>

\* ----------------------------------------------------------------- helpers
Range(s) == {s[k] : k \in 1..Len(s)}

RECURSIVE SeqsUpTo(_, _)
SeqsUpTo(S, n) ==
    IF n = 0 THEN {<<>>}
    ELSE LET shorter == SeqsUpTo(S, n - 1)
         IN  shorter \cup {Append(s, x) : s \in {t \in shorter : Len(t) = n - 1}, x \in S}

\* Mutant: the end of the range is included.
PyRange_Inclusive(a, b) == [k \in 1..(IF b >= a THEN b - a + 1 ELSE 0) |-> a + k - 1]

\* range(a, b)
PyRange(a, b) == [k \in 1..(IF b > a THEN b - a ELSE 0) |-> a + k - 1]

EmptyDoc == {}
HasKey(doc, key) == \E f \in doc : f[1] = key
Get(doc, key) == (CHOOSE f \in doc : f[1] = key)[2]

NoCheckpoint == [page |-> 0, pages_per_run |-> 0, max_pages |-> 0, data |-> <<>>]
DefaultCheckpoint ==
    [page |-> DefaultPage, pages_per_run |-> DefaultPagesPerRun,
     max_pages |-> DefaultMaxPages, data |-> <<>>]

\* read_data(file_name, default)
read_data(file, default) == IF Len(file) = 1 THEN file[1] ELSE default

\* save_data(file_name, data): a full overwrite
save_data(data) == <<data>>

MOVIES_IDS_FILE_NAME == "movies_ids.json"
CREDITS_FILE_NAME == "credits.json"
MOVIES_FILE_NAME == "movies.json"

\* The effect of save_data(file_name, data) on the three files.
WriteFile(file_name, data) ==
    /\ ckptFile' = IF file_name = MOVIES_IDS_FILE_NAME THEN save_data(data) ELSE ckptFile
    /\ creditsFile' = IF file_name = CREDITS_FILE_NAME THEN save_data(data) ELSE creditsFile
    /\ moviesFile' = IF file_name = MOVIES_FILE_NAME THEN save_data(data) ELSE moviesFile

\* ---------------------------------------------------------- fetch wrappers
\* A response of the remote API: ok is "status 200 and no transport error".
ListResponses == {[ok |-> FALSE, ids |-> <<>>]}
                   \cup {[ok |-> TRUE, ids |-> s] : s \in SeqsUpTo(Ids, MaxData)}

\* retreive_movies_id: the ids of the page, [] on any failure
retreive_movies_id(response) == IF response.ok THEN response.ids ELSE <<>>

\* retreive_movies: the detail document, {} on any failure
retreive_movies(movie_id, ok) == IF ok THEN {<<"id", movie_id>>} ELSE EmptyDoc

\* retreive_movies_crew: the credits document (its id is the movie id), {} on any failure
retreive_movies_crew(movie_id, ok) == IF ok THEN {<<"id", movie_id>>} ELSE EmptyDoc

\* ------------------------------------------------------------------- state
InitialCheckpoints ==
    {<<[page |-> 1, pages_per_run |-> p, max_pages |-> m, data |-> <<>>]>> :
        p \in 1..MaxPagesPerRun, m \in 1..MaxMaxPages}

NoCalls == [id \in Ids |-> 0]

Init ==
    /\ ckptFile \in InitialCheckpoints
    /\ creditsFile = <<>>
    /\ moviesFile = <<>>
    /\ token \in BOOLEAN
    /\ pc = "loop"
    /\ i = 0
    /\ runs = 1
    /\ stage = "none"
    /\ raised = "none"
    /\ data_to_save = NoCheckpoint
    /\ pages = <<>>
    /\ movies_ids = {}
    /\ todo = {}
    /\ credits = <<>>
    /\ credits_already_saved = <<>>
    /\ credit = <<>>
    /\ movies = <<>>
    /\ movies_ids_already_saved = <<>>
    /\ movie = <<>>
    /\ listCalls = <<>>
    /\ listReturns = <<>>
    /\ pageCalls = <<>>
    /\ creditCalls = NoCalls
    /\ detailCalls = NoCalls
    /\ stagesDone = <<>>


\* ------------------------------------------------------- save_movies_ids
\* Mutant: the ceiling test is an equality.
RefusesRun_Equal(d) == d.page = d.max_pages

\* Mutant: the ceiling test off by one (> for >=).
RefusesRun_Greater(d) == d.page > d.max_pages

\* if data_to_save["page"] >= data_to_save["max_pages"]: raise ValueError
RefusesRun(d) == d.page >= d.max_pages

\* Mutant: the cursor advances by one page, not by the width of the batch.
AdvancePage_ByOne(d) == [d EXCEPT !.page = d.page + 1]

\* Mutant: the cursor advances only when the batch returned ids.
AdvancePage_IfIds(d) ==
    IF d.data = <<>> THEN d ELSE [d EXCEPT !.page = d.page + d.pages_per_run]

\* data_to_save["page"] += data_to_save["pages_per_run"]
AdvancePage(d) == [d EXCEPT !.page = d.page + d.pages_per_run]

\* Mutant: only the ids the data does not hold yet are added.
ExtendData_Dedup(d, ids) ==
    [d EXCEPT !.data = d.data \o SelectSeq(ids, LAMBDA x : x \notin Range(d.data))]

\* data_to_save["data"].extend(movie)
ExtendData(d, ids) == [d EXCEPT !.data = d.data \o ids]

\* Lines 142-154: load the checkpoint, compute the range, refuse at the ceiling.
DiscoveryRead ==
    /\ pc = "save_movies_ids"
    /\ LET d == read_data(ckptFile, DefaultCheckpoint)
       IN  /\ data_to_save' = d
           /\ listCalls' = <<>>
           /\ listReturns' = <<>>
           /\ stage' = "discovery"
           /\ IF RefusesRun(d)
              THEN /\ raised' = "ValueError"
                   /\ pc' = "except"
                   /\ pages' = <<>>
              ELSE /\ raised' = raised
                   /\ pc' = "list_pages"
                   /\ pages' = PyRange(d.page, d.page + d.pages_per_run)
    /\ UNCHANGED <<files, token, i, runs, movies_ids, todo, credLocals, movLocals,
                   pageCalls, creditCalls, detailCalls, stagesDone>>

\* Lines 156-159: one iteration of the loop over the pages.
DiscoveryList ==
    /\ pc = "list_pages"
    /\ pages # <<>>
    /\ \E response \in ListResponses :
          LET ids == retreive_movies_id(response)
          IN  /\ Len(data_to_save.data) + Len(ids) <= MaxData
              /\ data_to_save' = ExtendData(data_to_save, ids)
              /\ listReturns' = Append(listReturns, ids)
    /\ listCalls' = Append(listCalls, Head(pages))
    /\ pageCalls' = Append(pageCalls, Head(pages))
    /\ pages' = Tail(pages)
    /\ UNCHANGED <<files, control, movies_ids, todo, credLocals, movLocals,
                   creditCalls, detailCalls, stagesDone>>

\* Line 164: save_data("movies_ids.json", data_to_save)
DiscoveryTarget == "movies_ids.json"

\* Lines 161-164: advance the cursor and write the checkpoint.
DiscoverySave ==
    /\ pc = "list_pages"
    /\ pages = <<>>
    /\ WriteFile(DiscoveryTarget, AdvancePage(data_to_save))
    /\ data_to_save' = NoCheckpoint
    /\ listReturns' = <<>>
    /\ stagesDone' = Append(stagesDone, "discovery")
    /\ pc' = "dedup"
    /\ UNCHANGED <<token, i, runs, stage, raised, pages,
                   movies_ids, todo, credLocals, movLocals,
                   listCalls, pageCalls, creditCalls, detailCalls>>

\* ------------------------------------------------------------ detail stages
\* [m["id"] for m in movies] raises KeyError on a document without "id"
AllHaveId(store) == \A k \in 1..Len(store) : HasKey(store[k], "id")
\* Mutant: the last record of the store is left out of the ids already saved.
IdsOf_DropLast(store) == [k \in 1..(Len(store) - 1) |-> Get(store[k], "id")]

IdsOf(store) == [k \in 1..Len(store) |-> Get(store[k], "id")]

\* Mutant: the membership test is inverted (in for not in).
NotSaved_Inverted(movie_id, already_saved) == movie_id \in Range(already_saved)

\* Mutant: the membership test is dropped, every id is fetched.
NotSaved_Always(movie_id, already_saved) == TRUE

\* if movie_id not in <ids already saved>
NotSaved(movie_id, already_saved) == movie_id \notin Range(already_saved)

\* set(read_data(MOVIES_IDS_FILE_NAME, ...)["data"])
UniqueIds(data) == Range(data)

\* Mutant: the write is inside the for loop, it does not wait for its end.
LoopOver_Always(remaining) == TRUE

\* The for loop over the unique-id set has no id left (lines 171, 185).
LoopOver(remaining) == remaining = {}

\* Mutant: the fetched document is put in front of the store.
AppendDoc_Front(store, doc) == <<doc>> \o store

\* movies.append(movie) / credits.append(credit)
AppendDoc(store, doc) == Append(store, doc)

\* Mutant: main awaits save_movies first.
StageAfterDedup_Movies == "save_movies"

\* Lines 205-206: main awaits save_credits_data, then save_movies.
StageAfterDedup == "save_credits_data"
StageAfterCredits == "save_movies"

\* Lines 201-203: the unique-id set of the checkpoint just written.
Dedup ==
    /\ pc = "dedup"
    /\ Len(ckptFile) = 1
    /\ movies_ids' = UniqueIds(read_data(ckptFile, NoCheckpoint).data)
    /\ pc' = StageAfterDedup
    /\ UNCHANGED <<files, token, i, runs, stage, raised, discLocals, todo,
                   credLocals, movLocals, history>>

\* Lines 181-183: load the credits store and the ids it holds.
CreditsRead ==
    /\ pc = "save_credits_data"
    /\ stage' = "credits"
    /\ LET store == read_data(creditsFile, <<>>)
       IN  /\ credits' = store
           /\ IF AllHaveId(store)
              THEN /\ credits_already_saved' = IdsOf(store)
                   /\ todo' = movies_ids
                   /\ pc' = "credits_loop"
                   /\ raised' = raised
              ELSE /\ credits_already_saved' = <<>>
                   /\ todo' = {}
                   /\ pc' = "crashed"
                   /\ raised' = "KeyError"
    /\ UNCHANGED <<files, token, i, runs, discLocals, movies_ids, credit,
                   movLocals, history>>

\* Lines 185-189: one iteration of the loop over the unique-id set.  The print
\* of line 188 reads credit["id"], which raises KeyError on the empty document.
CreditsFetch ==
    /\ pc = "credits_loop"
    /\ \E movie_id \in todo :
        /\ todo' = todo \ {movie_id}
        /\ IF NotSaved(movie_id, credits_already_saved)
           THEN \E ok \in BOOLEAN :
                  LET c == retreive_movies_crew(movie_id, ok)
                  IN  /\ credit' = <<c>>
                      /\ creditCalls' = [creditCalls EXCEPT ![movie_id] = @ + 1]
                      /\ IF HasKey(c, "id")
                         THEN /\ credits' = AppendDoc(credits, c)
                              /\ UNCHANGED <<pc, raised>>
                         ELSE /\ pc' = "crashed"
                              /\ raised' = "KeyError"
                              /\ UNCHANGED credits
           ELSE UNCHANGED <<credit, creditCalls, credits, pc, raised>>
    /\ UNCHANGED <<files, token, i, runs, stage, discLocals, movies_ids,
                   credits_already_saved, movLocals,
                   listCalls, listReturns, pageCalls, detailCalls, stagesDone>>

\* Mutant: the store is written to the file of the movies.
CreditsTarget_Movies == "movies.json"

\* Line 191: save_data("credits.json", credits)
CreditsTarget == "credits.json"

\* Line 191: after the loop, write the credits store.
CreditsSave ==
    /\ pc = "credits_loop"
    /\ LoopOver(todo)
    /\ WriteFile(CreditsTarget, credits)
    /\ credits' = <<>>
    /\ credits_already_saved' = <<>>
    /\ credit' = <<>>
    /\ stagesDone' = Append(stagesDone, "credits")
    /\ pc' = StageAfterCredits
    /\ UNCHANGED <<token, i, runs, stage, raised, discLocals,
                   movies_ids, todo, movLocals,
                   listCalls, listReturns, pageCalls, creditCalls, detailCalls>>

\* Lines 168-169: load the movies store and the ids it holds.
MoviesRead ==
    /\ pc = "save_movies"
    /\ stage' = "movies"
    /\ LET store == read_data(moviesFile, <<>>)
       IN  /\ movies' = store
           /\ IF AllHaveId(store)
              THEN /\ movies_ids_already_saved' = IdsOf(store)
                   /\ todo' = movies_ids
                   /\ pc' = "movies_loop"
                   /\ raised' = raised
              ELSE /\ movies_ids_already_saved' = <<>>
                   /\ todo' = {}
                   /\ pc' = "crashed"
                   /\ raised' = "KeyError"
    /\ UNCHANGED <<files, token, i, runs, discLocals, movies_ids, movie,
                   credLocals, history>>

\* Lines 171-175: one iteration of the loop over the unique-id set.
MoviesFetch ==
    /\ pc = "movies_loop"
    /\ \E movie_id \in todo :
        /\ todo' = todo \ {movie_id}
        /\ IF NotSaved(movie_id, movies_ids_already_saved)
           THEN \E ok \in BOOLEAN :
                  LET m == retreive_movies(movie_id, ok)
                  IN  /\ movie' = <<m>>
                      /\ detailCalls' = [detailCalls EXCEPT ![movie_id] = @ + 1]
                      /\ movies' = AppendDoc(movies, m)
           ELSE UNCHANGED <<movie, detailCalls, movies>>
    /\ UNCHANGED <<files, control, discLocals, movies_ids,
                   movies_ids_already_saved, credLocals,
                   listCalls, listReturns, pageCalls, creditCalls, stagesDone>>

\* Line 177: save_data("movies.json", movies)
MoviesTarget == "movies.json"

\* Line 177: after the loop, write the movies store; main returns.
MoviesSave ==
    /\ pc = "movies_loop"
    /\ LoopOver(todo)
    /\ WriteFile(MoviesTarget, movies)
    /\ movies' = <<>>
    /\ movies_ids_already_saved' = <<>>
    /\ movie' = <<>>
    /\ stagesDone' = Append(stagesDone, "movies")
    /\ pc' = "sleep"
    /\ UNCHANGED <<token, i, runs, stage, raised, discLocals,
                   movies_ids, todo, credLocals,
                   listCalls, listReturns, pageCalls, creditCalls, detailCalls>>

\* --------------------------------------------------------- main, __main__
\* Lines 212-215: the next cycle of the loop starts main().
StartCycle ==
    /\ pc = "loop"
    /\ i < QTDS
    /\ pc' = "read_token"
    /\ stage' = "none"
    /\ raised' = "none"
    /\ stagesDone' = <<>>
    /\ movies_ids' = {}
    /\ UNCHANGED <<files, token, i, runs, discLocals, todo, credLocals, movLocals,
                   listCalls, listReturns, pageCalls, creditCalls, detailCalls>>

\* Mutant: the missing token is not detected.
TokenMissing_Never(t) == FALSE

\* read_token, lines 20-21: if not token: raise ValueError
TokenMissing(t) == ~t

\* Line 196: read_token returns the token or raises ValueError.
ReadToken ==
    /\ pc = "read_token"
    /\ IF TokenMissing(token)
       THEN pc' = "except" /\ raised' = "ValueError"
       ELSE pc' = "save_movies_ids" /\ raised' = raised
    /\ UNCHANGED <<files, token, i, runs, stage, discLocals, movies_ids, todo,
                   credLocals, movLocals, history>>

\* Lines 207-208: main catches ValueError, prints it and returns.
Except ==
    /\ pc = "except"
    /\ raised = "ValueError"
    /\ pc' = "sleep"
    /\ data_to_save' = NoCheckpoint
    /\ pages' = <<>>
    /\ UNCHANGED <<files, token, i, runs, stage, raised, movies_ids, todo,
                   credLocals, movLocals, history>>

\* Line 216: the pause after the cycle, then the next value of i.
Sleep ==
    /\ pc = "sleep"
    /\ i' = i + 1
    /\ pc' = "loop"
    /\ UNCHANGED <<files, token, runs, stage, raised, discLocals, movies_ids, todo,
                   credLocals, movLocals, history>>

\* Line 213: the loop is exhausted and the process ends.
Finish ==
    /\ pc = "loop"
    /\ i = QTDS
    /\ pc' = "done"
    /\ UNCHANGED <<files, token, i, runs, stage, raised, discLocals, movies_ids, todo,
                   credLocals, movLocals, history>>

\* The script is launched again, after it ended or died on an uncaught
\* exception: the files are what the last process left, the memory is new.
Launch ==
    /\ pc \in {"done", "crashed"}
    /\ runs < MaxRuns
    /\ runs' = runs + 1
    /\ token' \in BOOLEAN
    /\ pc' = "loop"
    /\ i' = 0
    /\ stage' = "none"
    /\ raised' = "none"
    /\ data_to_save' = NoCheckpoint
    /\ pages' = <<>>
    /\ movies_ids' = {}
    /\ todo' = {}
    /\ credits' = <<>>
    /\ credits_already_saved' = <<>>
    /\ credit' = <<>>
    /\ movies' = <<>>
    /\ movies_ids_already_saved' = <<>>
    /\ movie' = <<>>
    /\ listCalls' = <<>>
    /\ listReturns' = <<>>
    /\ stagesDone' = <<>>
    /\ UNCHANGED <<files, pageCalls, creditCalls, detailCalls>>

Next ==
    \/ StartCycle
    \/ ReadToken
    \/ DiscoveryRead
    \/ DiscoveryList
    \/ DiscoverySave
    \/ Dedup
    \/ CreditsRead
    \/ CreditsFetch
    \/ CreditsSave
    \/ MoviesRead
    \/ MoviesFetch
    \/ MoviesSave
    \/ Except
    \/ Sleep
    \/ Finish
    \/ Launch

Spec == Init /\ [][Next]_vars


\* ------------------------------------------------------------ properties
Checkpoint == read_data(ckptFile, DefaultCheckpoint)
CreditsStore == read_data(creditsFile, <<>>)
MoviesStore == read_data(moviesFile, <<>>)

\* Positions of the records of a store that carry this id.
Holding(store, id) == {k \in 1..Len(store) : HasKey(store[k], "id") /\ Get(store[k], "id") = id}
HasEmptyDoc(store) == \E k \in 1..Len(store) : store[k] = EmptyDoc
Last(s) == s[Len(s)]

AllStages == <<"discovery", "credits", "movies">>
IsPrefix(s, t) == Len(s) <= Len(t) /\ \A k \in 1..Len(s) : s[k] = t[k]

\* C1: every Discovery invocation that is not refused ends by writing a
\* checkpoint whose page is the previous page plus exactly pages_per_run,
\* whatever the pages returned, and no step ever lowers the persisted page.
C1_PageAdvancesByPagesPerRun ==
    [][ /\ (Len(stagesDone') > Len(stagesDone) /\ Last(stagesDone') = "discovery")
           => /\ Len(ckptFile') = 1
              /\ ckptFile'[1].page = Checkpoint.page + Checkpoint.pages_per_run
        /\ (pc = "list_pages" /\ pc' # "list_pages")
           => (Len(stagesDone') > Len(stagesDone) /\ Last(stagesDone') = "discovery")
        /\ Checkpoint'.page >= Checkpoint.page ]_vars

\* Two pages listed, nothing returned, and the cursor moved from 1 to 3.
C1_Witness ==
    /\ pc = "dedup"
    /\ Checkpoint.pages_per_run = 2
    /\ Checkpoint.page = 3
    /\ Checkpoint.data = <<>>
    /\ listCalls = <<1, 2>>

\* C2: a Discovery invocation that finds page >= max_pages raises the fatal
\* ValueError before any page is listed, and neither that step nor the rest
\* of the cycle changes the persisted checkpoint.
C2_RefusalLeavesCheckpoint ==
    [][ /\ (pc = "save_movies_ids" /\ Checkpoint.page >= Checkpoint.max_pages)
           => /\ raised' = "ValueError"
              /\ pc' = "except"
              /\ listCalls' = <<>>
              /\ pageCalls' = pageCalls
              /\ ckptFile' = ckptFile
        /\ (stage = "discovery" /\ raised = "ValueError" /\ pc \in {"except", "sleep"})
           => /\ listCalls' = <<>>
              /\ pageCalls' = pageCalls
              /\ ckptFile' = ckptFile ]_vars

\* A refusal in a cycle that follows a productive one.
C2_Witness ==
    /\ pc = "sleep"
    /\ stage = "discovery"
    /\ raised = "ValueError"
    /\ Checkpoint.data # <<>>
    /\ Checkpoint.page >= Checkpoint.max_pages

\* C3: in every reachable state no two records of the persisted movies
\* store carry the same id, and no two records of the credits store do.
C3_IdsUniquePerStore ==
    \A id \in Ids : /\ Cardinality(Holding(MoviesStore, id)) <= 1
                    /\ Cardinality(Holding(CreditsStore, id)) <= 1

\* Both stores hold two records after a launch that followed a failed fetch.
C3_Witness ==
    /\ runs = 2
    /\ Len(CreditsStore) = 2
    /\ Len(MoviesStore) = 2
    /\ \E id \in Ids : creditCalls[id] = 2

\* C4: no step calls retreive_movies for an id that a record of the persisted
\* movies store carries, and no step changes how many records carry it.
C4_StoredMovieNotRefetched ==
    [][ \A id \in Ids :
          Holding(MoviesStore, id) # {}
          => /\ detailCalls'[id] = detailCalls[id]
             /\ Holding(MoviesStore', id) = Holding(MoviesStore, id)
             /\ (stage' = "movies" /\ pc' = "movies_loop")
                => Holding(movies', id) = Holding(MoviesStore, id) ]_vars

\* The loop of save_movies has passed an id that was stored, without a
\* fetch, and has fetched one that was not.
C4_Witness ==
    /\ pc = "movies_loop"
    /\ todo = {}
    /\ \E id \in movies_ids : /\ Holding(MoviesStore, id) # {}
                              /\ detailCalls[id] = 1
    /\ \E id \in movies_ids : /\ Holding(MoviesStore, id) = {}
                              /\ Holding(movies, id) # {}

\* C5: over all launches and cycles every id is fetched at most once per
\* collection (retreive_movies and retreive_movies_crew each at most once).
C5_FetchedAtMostOnce ==
    \A id \in Ids : detailCalls[id] <= 1 /\ creditCalls[id] <= 1

\* C6: when retreive_movies fails the stage appends the empty document and
\* writes it, and a later run of save_movies over a store that holds the
\* empty document completes without a fetch for that id.
C6_RerunAfterFailedDetailCompletes ==
    /\ (stage = "movies" /\ movie = <<EmptyDoc>>)
       => (pc = "movies_loop" /\ Last(movies) = EmptyDoc)
    /\ (stage = "movies" /\ HasEmptyDoc(MoviesStore))
       => pc \in {"movies_loop", "sleep", "loop", "done"}

\* C7: a failed fetch of one id is not a failure of its stage: the stage
\* (credits or movies) appends the empty document and stays in its loop.
C7_FailedFetchKeepsStageRunning ==
    /\ (stage = "credits" /\ credit = <<EmptyDoc>>)
       => (pc = "credits_loop" /\ Len(credits) > 0 /\ Last(credits) = EmptyDoc)
    /\ (stage = "movies" /\ movie = <<EmptyDoc>>)
       => (pc = "movies_loop" /\ Len(movies) > 0 /\ Last(movies) = EmptyDoc)

\* C8: in a process without the token no step starts a stage, calls a fetch
\* or changes a store, the process does not die, and the pause after the
\* aborted cycle leads to the next value of the loop variable.
C8_MissingTokenAbortsCycle ==
    [][ ~token
        => /\ files' = files
           /\ <<pageCalls', creditCalls', detailCalls'>> = <<pageCalls, creditCalls, detailCalls>>
           /\ stagesDone' = <<>>
           /\ pc' \in {"loop", "read_token", "except", "sleep", "done"}
           /\ (pc = "read_token" => pc' = "except" /\ raised' = "ValueError")
           /\ (pc = "sleep" => pc' = "loop" /\ i' = i + 1) ]_vars

\* A cycle aborted for the missing token, over stores an earlier launch filled.
C8_Witness ==
    /\ ~token
    /\ pc = "sleep"
    /\ raised = "ValueError"
    /\ i >= 1
    /\ Len(MoviesStore) > 0
    /\ Len(CreditsStore) > 0

\* C9: within a cycle the stages run in the order Discovery, Credits,
\* Movies, each at most once and each only after the one before it wrote
\* its store; the cycle is back at the pause once Movies wrote its store.
C9_StagesInOrder ==
    /\ IsPrefix(stagesDone, AllStages)
    /\ pc \in {"save_movies_ids", "list_pages"} => stagesDone = <<>>
    /\ pc \in {"dedup", "save_credits_data", "credits_loop"} => stagesDone = <<"discovery">>
    /\ pc \in {"save_movies", "movies_loop"} => stagesDone = <<"discovery", "credits">>
    /\ stagesDone = AllStages => pc \in {"sleep", "loop", "done"}
    /\ (stage = "credits" /\ pc # "crashed") => stagesDone \in {<<"discovery">>, <<"discovery", "credits">>}
    /\ (stage = "movies" /\ pc # "crashed") => stagesDone \in {<<"discovery", "credits">>, AllStages}

\* The second cycle of a process has run its three stages.
C9_Witness ==
    /\ pc = "sleep"
    /\ i = 1
    /\ stagesDone = AllStages

\* C10: the process always runs its ten cycles: it never dies inside a
\* cycle and it ends only when the loop variable has run through range(10).
C10_AllCyclesRun ==
    /\ pc # "crashed"
    /\ pc = "done" => i = QTDS

\* Ids carried by the records of a store.
StoredIds(store) == {id \in Ids : Holding(store, id) # {}}

\* The records a stage has appended in memory to the store it loaded.
Appended(inMemory, store) == SubSeq(inMemory, Len(store) + 1, Len(inMemory))

\* C11: a detail stage whose fetches succeed fetches an id only when it is in
\* the unique-id set, absent from the store and not yet fetched by this run,
\* each fetch appends one record, and the store it writes is the previous
\* store, in the same order, followed by exactly one record per absent id.
C11_FetchesExactlyTheAbsentIds ==
    [][ /\ \A id \in Ids :
             /\ (pc = "movies_loop" /\ pc' = "movies_loop" /\ ~HasEmptyDoc(movies'))
                => /\ detailCalls'[id] - detailCalls[id]
                        = Cardinality(Holding(movies', id)) - Cardinality(Holding(movies, id))
                   /\ detailCalls'[id] # detailCalls[id]
                        => (id \in movies_ids /\ id \notin StoredIds(MoviesStore)
                             /\ Holding(movies, id) = {})
             /\ (pc = "credits_loop" /\ pc' = "credits_loop")
                => /\ creditCalls'[id] - creditCalls[id]
                        = Cardinality(Holding(credits', id)) - Cardinality(Holding(credits, id))
                   /\ creditCalls'[id] # creditCalls[id]
                        => (id \in movies_ids /\ id \notin StoredIds(CreditsStore)
                             /\ Holding(credits, id) = {})
        /\ (moviesFile' # moviesFile /\ ~HasEmptyDoc(MoviesStore'))
           => /\ IsPrefix(MoviesStore, MoviesStore')
              /\ \A id \in Ids :
                   Cardinality(Holding(Appended(MoviesStore', MoviesStore), id))
                     = IF id \in movies_ids \ StoredIds(MoviesStore) THEN 1 ELSE 0
              /\ Len(MoviesStore') = Len(MoviesStore) + Cardinality(movies_ids \ StoredIds(MoviesStore))
        /\ (creditsFile' # creditsFile)
           => /\ IsPrefix(CreditsStore, CreditsStore')
              /\ \A id \in Ids :
                   Cardinality(Holding(Appended(CreditsStore', CreditsStore), id))
                     = IF id \in movies_ids \ StoredIds(CreditsStore) THEN 1 ELSE 0
              /\ Len(CreditsStore') = Len(CreditsStore) + Cardinality(movies_ids \ StoredIds(CreditsStore))
      ]_vars

\* Scenario B: the movies store holds the record of 7, the unique-id set is
\* {7, 8}, and the loop has ended with the records of 7 and 8 in memory
\* after a single fetch, of 8.
C11_Witness ==
    /\ pc = "movies_loop"
    /\ todo = {}
    /\ movies_ids = {7, 8}
    /\ MoviesStore = <<{<<"id", 7>>}>>
    /\ movies = <<{<<"id", 7>>}, {<<"id", 8>>}>>
    /\ detailCalls = [id \in Ids |-> 1]

\* C12: max_pages is a ceiling of the pages listed: no page that a Discovery
\* invocation lists is greater than the max_pages of the checkpoint.
C12_NoPageBeyondMaxPages ==
    \A k \in 1..Len(listCalls) : listCalls[k] <= Checkpoint.max_pages

\* C14: a Discovery invocation that is not refused lists the pages page,
\* page + 1, ... in ascending order, never more than pages_per_run of them,
\* and has listed exactly pages_per_run pages when it writes the checkpoint.
C14_ListsExactlyTheRange ==
    /\ pc = "list_pages"
       => /\ Len(listCalls) <= Checkpoint.pages_per_run
          /\ Len(listCalls) + Len(pages) = Checkpoint.pages_per_run
          /\ \A k \in 1..Len(listCalls) : listCalls[k] = Checkpoint.page + k - 1
    /\ pc = "dedup"
       => /\ Len(listCalls) = Checkpoint.pages_per_run
          /\ \A k \in 1..Len(listCalls) :
                listCalls[k] = Checkpoint.page - Checkpoint.pages_per_run + k - 1

\* An invocation of a checkpoint with pages_per_run = 3 has listed pages 1,
\* 2 and 3 and moved the cursor to 4.
C14_Witness ==
    /\ pc = "dedup"
    /\ Checkpoint.pages_per_run = 3
    /\ Checkpoint.page = 4
    /\ listCalls = <<1, 2, 3>>

\* The lists of a sequence of lists, one after the other.
RECURSIVE Flatten(_)
Flatten(ss) == IF ss = <<>> THEN <<>> ELSE Head(ss) \o Flatten(Tail(ss))

\* C13: Discovery only appends to the data of the checkpoint: no step removes
\* or reorders an id of the persisted data, and the data an invocation writes
\* is the previous data followed by what the pages of the range returned, in
\* the order of the pages and in the order returned, duplicates kept.
C13_DataOnlyAppended ==
    [][ /\ IsPrefix(Checkpoint.data, Checkpoint'.data)
        /\ pc' = "list_pages"
           => /\ Len(listReturns') = Len(listCalls')
              /\ data_to_save'.data = Checkpoint.data \o Flatten(listReturns')
        /\ ckptFile' # ckptFile
           => /\ Len(listReturns) = Checkpoint.pages_per_run
              /\ Checkpoint'.data = Checkpoint.data \o Flatten(listReturns) ]_vars

\* Scenario A: page 1 returned [7, 8, 7] and the data written is [7, 8, 7].
C13_Witness ==
    /\ pc = "dedup"
    /\ listCalls = <<1>>
    /\ Checkpoint.page = 2
    /\ Checkpoint.data = <<7, 8, 7>>
    /\ i = 0

\* C15: over all Discovery invocations every page is listed at most once and
\* the pages listed are consecutive, without a gap, whatever they returned:
\* a page that failed or returned nothing is not listed again.
C15_PagesListedOnceInSequence ==
    /\ \A j, k \in 1..Len(pageCalls) : j # k => pageCalls[j] # pageCalls[k]
    /\ \A k \in 1..(Len(pageCalls) - 1) : pageCalls[k + 1] = pageCalls[k] + 1

\* Two invocations have listed pages 1 and 2, and neither page returned an id.
C15_Witness ==
    /\ pc = "dedup"
    /\ i = 1
    /\ pageCalls = <<1, 2>>
    /\ listCalls = <<2>>
    /\ Checkpoint.data = <<>>

\* C16: a store changes only in the last step of its stage, once per cycle:
\* the checkpoint when every page of the range has been listed, a detail
\* store when the loop over the unique-id set is over.  Every other step of
\* the stage, and the step in which the process dies, leaves the files as
\* they were, whatever the stage holds in memory.
C16_StoreWrittenOnceAtTheEnd ==
    [][ /\ ckptFile' # ckptFile
           => /\ pc = "list_pages" /\ pages = <<>> /\ pc' # "list_pages"
              /\ "discovery" \notin Range(stagesDone)
              /\ stagesDone' = Append(stagesDone, "discovery")
        /\ creditsFile' # creditsFile
           => /\ pc = "credits_loop" /\ todo = {} /\ pc' # "credits_loop"
              /\ "credits" \notin Range(stagesDone)
              /\ stagesDone' = Append(stagesDone, "credits")
        /\ moviesFile' # moviesFile
           => /\ pc = "movies_loop" /\ todo = {} /\ pc' # "movies_loop"
              /\ "movies" \notin Range(stagesDone)
              /\ stagesDone' = Append(stagesDone, "movies")
        /\ pc' = "crashed" => files' = files ]_vars

\* The credits stage died on its second id: the record of the first id is in
\* memory and the credits file is still missing.
C16_Witness ==
    /\ pc = "crashed"
    /\ stage = "credits"
    /\ Len(credits) = 1
    /\ creditsFile = <<>>
    /\ todo = {}

\* C17: each store is changed only by its own stage, which changes no other
\* store: the checkpoint by Discovery, the credits store by the Credits
\* stage, the movies store by the Movies stage.
C17_StoreOwnedByItsStage ==
    [][ /\ ckptFile' # ckptFile
           => (stage = "discovery" /\ creditsFile' = creditsFile /\ moviesFile' = moviesFile)
        /\ creditsFile' # creditsFile
           => (stage = "credits" /\ ckptFile' = ckptFile /\ moviesFile' = moviesFile)
        /\ moviesFile' # moviesFile
           => (stage = "movies" /\ ckptFile' = ckptFile /\ creditsFile' = creditsFile)
        /\ (Len(stagesDone') > Len(stagesDone) /\ Last(stagesDone') = "discovery")
           => (Len(ckptFile') = 1 /\ creditsFile' = creditsFile /\ moviesFile' = moviesFile)
        /\ (Len(stagesDone') > Len(stagesDone) /\ Last(stagesDone') = "credits")
           => (creditsFile' = <<credits>> /\ ckptFile' = ckptFile /\ moviesFile' = moviesFile)
        /\ (Len(stagesDone') > Len(stagesDone) /\ Last(stagesDone') = "movies")
           => (moviesFile' = <<movies>> /\ ckptFile' = ckptFile /\ creditsFile' = creditsFile)
      ]_vars

\* A cycle has written the three stores, each with content.
C17_Witness ==
    /\ pc = "sleep"
    /\ stagesDone = AllStages
    /\ Checkpoint.data # <<>>
    /\ Len(CreditsStore) = 2
    /\ Len(MoviesStore) = 2
    /\ CreditsStore # MoviesStore

\* Positions of the process outside the stages that follow Discovery.
OutsideDetailStages == {"loop", "read_token", "save_movies_ids", "except", "sleep", "done", "crashed"}

\* C18: once the persisted page has reached max_pages, a cycle gets no
\* further than the refusal of Discovery: the refusal raises ValueError, the
\* Credits and Movies stages do not run, no fetch is made, no store changes,
\* and the pause leads to the next value of the loop variable.
C18_RefusalAbortsCycle ==
    [][ (Checkpoint.page >= Checkpoint.max_pages /\ pc \in OutsideDetailStages)
        => /\ files' = files
           /\ <<pageCalls', creditCalls', detailCalls'>> = <<pageCalls, creditCalls, detailCalls>>
           /\ pc' \in OutsideDetailStages
           /\ pc = "save_movies_ids"
              => (pc' = "except" /\ raised' = "ValueError" /\ stagesDone' = <<>>)
           /\ pc = "except" => pc' = "sleep"
           /\ pc = "sleep" => (pc' = "loop" /\ i' = i + 1) ]_vars

\* The pause of a cycle that Discovery refused, two cycles after the one
\* that filled the stores.
C18_Witness ==
    /\ pc = "sleep"
    /\ stage = "discovery"
    /\ raised = "ValueError"
    /\ stagesDone = <<>>
    /\ i >= 2
    /\ Len(CreditsStore) > 0
    /\ Len(MoviesStore) > 0

\* C19: at the end of a cycle whose three stages completed without a failed
\* detail fetch, every id of the persisted data has exactly one record in
\* the credits store and exactly one in the movies store.
C19_EveryIdStoredOnce ==
    (pc = "sleep" /\ stagesDone = AllStages /\ ~HasEmptyDoc(MoviesStore) /\ ~HasEmptyDoc(CreditsStore))
    => \A id \in Range(Checkpoint.data) :
          /\ Cardinality(Holding(CreditsStore, id)) = 1
          /\ Cardinality(Holding(MoviesStore, id)) = 1

\* The second complete cycle: the data holds a duplicate and both ids, and
\* each store holds one record of each.
C19_Witness ==
    /\ pc = "sleep"
    /\ stagesDone = AllStages
    /\ i = 1
    /\ Checkpoint.data = <<7, 7, 8>>
    /\ Len(CreditsStore) = 2
    /\ Len(MoviesStore) = 2
    /\ ~HasEmptyDoc(MoviesStore)

====
